---- MODULE Spec2Model ----
(***************************************************************************)
(* Model of Farm_Size_Income.py: the income simulation function            *)
(* simulate_income and the Streamlit script that calls it once per farm,   *)
(* derives the full-time farmer counts, accumulates the combined table by  *)
(* repeated merges on 'Farm Size' and melts it for the two charts.         *)
(*                                                                         *)
(* Numbers.  Every widget except the market price returns a Python int.    *)
(* CMP is a float; the model takes it from the multiples of 1/CMPDen, all  *)
(* of which (and all products and sums formed from them here) are exact    *)
(* binary floats, and stores CMP and every income as an integer number of  *)
(* 1/CMPDen units.  A float64 cell produced by numpy's divide and ceil is  *)
(* a record [kind, val] with kind "num", "inf", "-inf" or "nan".           *)
(***************************************************************************)
EXTENDS Integers, Sequences, FiniteSets, TLC

VARIABLES
    pc,                          \* position of the script / of the call
    exception,                   \* "none" or the exception that ended the run
    CMP, standard_LTH, MLT, LC,  \* the number_input widgets (lines 74-77)
    session_state,               \* slider values by farm (keys YH{i}, MCH{i}, LTH{i})
    area_one_farmer_can_manage,
    all_farm_data,
    i,                           \* loop variable of `for i in range(num_farms)`
    YH, MCH, LTH,                \* slider values read in the current iteration
    farm_sizes,
    incomes,
    labor_times,
    full_time_farmers,
    all_farm_data_melted,
    all_farmers_data_melted

vars == <<pc, exception, CMP, standard_LTH, MLT, LC, session_state,
          area_one_farmer_can_manage, all_farm_data, i, YH, MCH, LTH,
          farm_sizes, incomes, labor_times, full_time_farmers,
          all_farm_data_melted, all_farmers_data_melted>>

-----------------------------------------------------------------------------
(* Program constants and input domains *)

num_farms == 2

CMPDen == 2

\* Bounds of the inputs given to simulate_income when it is checked on its own.
MaxLen == 3
MaxSize == 3

CMPValues == {2, 5}                 \* 1.0 and 2.5 $/kg, in units of 1/CMPDen
StandardLTHValues == {0, 100}
MLTValues == {-200, 0, 200}
LCValues == {0, 10}
YHValues == {500, 1500}
MCHValues == {200, 600}
LTHValues == {0, 100, 160}

Farms == 1..num_farms

IncomeCol(f) == <<"Farm 1 Income", "Farm 2 Income", "Farm 3 Income">>[f]

FarmersCol(f) ==
    <<"Farm 1 Full-Time Farmers", "Farm 2 Full-Time Farmers",
      "Farm 3 Full-Time Farmers">>[f]

-----------------------------------------------------------------------------
(* Python and numpy arithmetic *)

Max(a, b) == IF a >= b THEN a ELSE b

Min(a, b) == IF a <= b THEN a ELSE b

Num(v) == [kind |-> "num", val |-> v]

Inf == [kind |-> "inf", val |-> 0]

NegInf == [kind |-> "-inf", val |-> 0]

NaN == [kind |-> "nan", val |-> 0]

\* a / b for Python ints: the exact quotient num/den, or ZeroDivisionError
PyTrueDivide(a, b) ==
    IF b = 0
    THEN [kind |-> "ZeroDivisionError", num |-> 0, den |-> 1]
    ELSE [kind |-> "num", num |-> a, den |-> b]

Unassigned == [kind |-> "unassigned", num |-> 0, den |-> 1]

\* The least integer >= a / b, for b # 0.
CeilDiv(a, b) == IF b > 0 THEN -((-a) \div b) ELSE -(a \div (-b))

\* np.ceil(a / b) for an int64 a and a Python int b: numpy's true_divide does
\* not raise on a zero divisor, it yields inf, -inf or nan.
NpCeilDivideFloor(a, b) ==
    IF b = 0
    THEN IF a > 0 THEN Inf ELSE IF a < 0 THEN NegInf ELSE NaN
    ELSE Num(IF b > 0 THEN a \div b ELSE (-a) \div (-b))

NpCeilDivideSwapped(a, b) ==
    IF a = 0
    THEN IF b > 0 THEN Inf ELSE IF b < 0 THEN NegInf ELSE NaN
    ELSE Num(CeilDiv(b, a))

NpCeilDivideRaising(a, b) ==
    IF b = 0 THEN [kind |-> "ZeroDivisionError", val |-> 0] ELSE Num(CeilDiv(a, b))

NpCeilDivide(a, b) ==
    IF b = 0
    THEN IF a > 0 THEN Inf ELSE IF a < 0 THEN NegInf ELSE NaN
    ELSE Num(CeilDiv(a, b))

\* np.arange(start, stop, 1)
arange(start, stop) == [k \in 1..Max(0, stop - start) |-> start + k - 1]

-----------------------------------------------------------------------------
(* simulate_income *)

HiredLaborHoursUnclamped(size, lth, mlt) == (lth * size) - mlt

HiredLaborHoursPerHectare(size, lth, mlt) == Max(0, (lth * size) - (mlt * size))

\* line 67
HiredLaborHours(size, lth, mlt) == Max(0, (lth * size) - mlt)

IncomeNoLabor(size, yh, mch, lth, cmp, mlt, lc) ==
    ((yh * size) * cmp) - ((mch * size) * CMPDen)

\* lines 64-68, the body of the loop; the result is in units of 1/CMPDen
Income(size, yh, mch, lth, cmp, mlt, lc) ==
    LET yield_total == yh * size
        material_cost_total == mch * size
        farm_owner_labor_time == Min(lth * size, mlt)
        hired_labor_hours == HiredLaborHours(size, lth, mlt)
    IN  (yield_total * cmp) - (material_cost_total * CMPDen)
            - (hired_labor_hours * lc * CMPDen)

RECURSIVE SimulateLoop(_, _, _, _, _, _, _, _, _)
SimulateLoop(sizes, k, acc, yh, mch, lth, cmp, mlt, lc) ==
    IF k > Len(sizes)
    THEN acc
    ELSE SimulateLoop(sizes, k + 1,
                      Append(acc, Income(sizes[k], yh, mch, lth, cmp, mlt, lc)),
                      yh, mch, lth, cmp, mlt, lc)

RECURSIVE SimulateLoopPrepend(_, _, _, _, _, _, _, _, _)
SimulateLoopPrepend(sizes, k, acc, yh, mch, lth, cmp, mlt, lc) ==
    IF k > Len(sizes)
    THEN acc
    ELSE SimulateLoopPrepend(sizes, k + 1,
                      <<Income(sizes[k], yh, mch, lth, cmp, mlt, lc)>> \o acc,
                      yh, mch, lth, cmp, mlt, lc)

simulate_income_reversed(sizes, yh, mch, lth, cmp, mlt, lc) ==
    SimulateLoopPrepend(sizes, 1, <<>>, yh, mch, lth, cmp, mlt, lc)

\* lines 61-70
simulate_income(sizes, yh, mch, lth, cmp, mlt, lc) ==
    SimulateLoop(sizes, 1, <<>>, yh, mch, lth, cmp, mlt, lc)

-----------------------------------------------------------------------------
(* pandas *)

DataFrame(columns, rows) == [columns |-> columns, rows |-> rows]

EmptyFrame == DataFrame(<<>>, <<>>)

\* DataFrame.empty
IsEmpty(df) == Len(df.rows) = 0 \/ Len(df.columns) = 0

\* pd.DataFrame({'Farm Size': ..., 'Farm f Income': ..., 'Farm f Full-Time Farmers': ...})
FarmData(f, sizes, incs, farmers) ==
    DataFrame(<<"Farm Size", IncomeCol(f), FarmersCol(f)>>,
              [k \in 1..Len(sizes) |->
                  ("Farm Size" :> sizes[k]) @@ (IncomeCol(f) :> incs[k])
                      @@ (FarmersCol(f) :> farmers[k])])

\* the rows of an inner join: every pair of a left and a right row that agree
\* on the key, in the order of the left rows and then of the right rows
JoinRows(lrows, rrows, on) ==
    LET nr == Len(rrows)
        pairs == [k \in 1..(Len(lrows) * nr) |->
                     <<((k - 1) \div nr) + 1, ((k - 1) % nr) + 1>>]
        matching == SelectSeq(pairs,
                        LAMBDA p : lrows[p[1]][on] = rrows[p[2]][on])
    IN  [k \in 1..Len(matching) |->
            lrows[matching[k][1]] @@ rrows[matching[k][2]]]

MergeCross(left, right, on) ==
    DataFrame(left.columns \o SelectSeq(right.columns, LAMBDA c : c # on),
              [k \in 1..(Len(left.rows) * Len(right.rows)) |->
                  left.rows[((k - 1) \div Len(right.rows)) + 1]
                      @@ right.rows[((k - 1) % Len(right.rows)) + 1]])

\* left.merge(right, on=on): inner join on one key column
Merge(left, right, on) ==
    DataFrame(left.columns \o SelectSeq(right.columns, LAMBDA c : c # on),
              JoinRows(left.rows, right.rows, on))

\* df.melt(id_var, var_name=..., value_name=..., value_vars=value_vars)
MeltVars(df, id_var, var_name, value_name, value_vars) ==
    LET n == Len(df.rows)
    IN  DataFrame(<<id_var, var_name, value_name>>,
                  [k \in 1..(Len(value_vars) * n) |->
                      LET c == value_vars[((k - 1) \div n) + 1]
                          row == df.rows[((k - 1) % n) + 1]
                      IN  (id_var :> row[id_var]) @@ (var_name :> c)
                              @@ (value_name :> row[c])])

\* df.melt(id_var, var_name=..., value_name=...): every other column is melted
Melt(df, id_var, var_name, value_name) ==
    MeltVars(df, id_var, var_name, value_name,
             SelectSeq(df.columns, LAMBDA c : c # id_var))

-----------------------------------------------------------------------------
(* The script, top to bottom *)

Init ==
    /\ pc = "area"
    /\ exception = "none"
    /\ CMP \in CMPValues
    /\ standard_LTH \in StandardLTHValues
    /\ MLT \in MLTValues
    /\ LC \in LCValues
    /\ session_state \in [Farms -> [YH : YHValues, MCH : MCHValues, LTH : LTHValues]]
    /\ area_one_farmer_can_manage = Unassigned
    /\ all_farm_data = EmptyFrame
    /\ i = 0
    /\ YH = 0 /\ MCH = 0 /\ LTH = 0
    /\ farm_sizes = <<>>
    /\ incomes = <<>>
    /\ labor_times = <<>>
    /\ full_time_farmers = <<>>
    /\ all_farm_data_melted = EmptyFrame
    /\ all_farmers_data_melted = EmptyFrame

\* line 80: a Python int division; a zero divisor ends the run
ComputeArea ==
    /\ pc = "area"
    /\ LET q == PyTrueDivide(MLT, standard_LTH)
       IN  IF q.kind = "ZeroDivisionError"
           THEN /\ exception' = "ZeroDivisionError"
                /\ pc' = "raised"
                /\ UNCHANGED area_one_farmer_can_manage
           ELSE /\ area_one_farmer_can_manage' = q
                /\ pc' = "farm"
                /\ UNCHANGED exception
    /\ UNCHANGED <<CMP, standard_LTH, MLT, LC, session_state, all_farm_data, i,
                   YH, MCH, LTH, farm_sizes, incomes, labor_times,
                   full_time_farmers, all_farm_data_melted,
                   all_farmers_data_melted>>

\* lines 99-118: the sliders of farm i + 1 and the shared size series
ReadSliders ==
    /\ pc = "farm"
    /\ i < num_farms
    /\ YH' = session_state[i + 1].YH
    /\ MCH' = session_state[i + 1].MCH
    /\ LTH' = session_state[i + 1].LTH
    /\ farm_sizes' = arange(1, 11)
    /\ pc' = "simulate"
    /\ UNCHANGED <<exception, CMP, standard_LTH, MLT, LC, session_state,
                   area_one_farmer_can_manage, all_farm_data, i, incomes,
                   labor_times, full_time_farmers, all_farm_data_melted,
                   all_farmers_data_melted>>

\* line 121
CallSimulateIncome ==
    /\ pc = "simulate"
    /\ incomes' = simulate_income(farm_sizes, YH, MCH, LTH, CMP, MLT, LC)
    /\ pc' = "farmers"
    /\ UNCHANGED <<exception, CMP, standard_LTH, MLT, LC, session_state,
                   area_one_farmer_can_manage, all_farm_data, i, YH, MCH, LTH,
                   farm_sizes, labor_times, full_time_farmers,
                   all_farm_data_melted, all_farmers_data_melted>>

\* lines 124-125
ComputeFullTimeFarmers ==
    /\ pc = "farmers"
    /\ labor_times' = [k \in 1..Len(farm_sizes) |-> LTH * farm_sizes[k]]
    /\ full_time_farmers' =
           [k \in 1..Len(farm_sizes) |-> NpCeilDivide(LTH * farm_sizes[k], MLT)]
    /\ pc' = "store"
    /\ UNCHANGED <<exception, CMP, standard_LTH, MLT, LC, session_state,
                   area_one_farmer_can_manage, all_farm_data, i, YH, MCH, LTH,
                   farm_sizes, incomes, all_farm_data_melted,
                   all_farmers_data_melted>>

\* lines 128-138, and the step of the for loop
StoreFarmData ==
    /\ pc = "store"
    /\ LET farm_data == FarmData(i + 1, farm_sizes, incomes, full_time_farmers)
       IN  all_farm_data' =
               IF IsEmpty(all_farm_data)
               THEN farm_data
               ELSE Merge(all_farm_data, farm_data, "Farm Size")
    /\ i' = i + 1
    /\ pc' = IF i + 1 < num_farms THEN "farm" ELSE "melt_income"
    /\ UNCHANGED <<exception, CMP, standard_LTH, MLT, LC, session_state,
                   area_one_farmer_can_manage, YH, MCH, LTH, farm_sizes,
                   incomes, labor_times, full_time_farmers,
                   all_farm_data_melted, all_farmers_data_melted>>

\* line 141: no value_vars are given
MeltIncome ==
    /\ pc = "melt_income"
    /\ all_farm_data_melted' = Melt(all_farm_data, "Farm Size", "Farm", "Income")
    /\ pc' = "melt_farmers"
    /\ UNCHANGED <<exception, CMP, standard_LTH, MLT, LC, session_state,
                   area_one_farmer_can_manage, all_farm_data, i, YH, MCH, LTH,
                   farm_sizes, incomes, labor_times, full_time_farmers,
                   all_farmers_data_melted>>

\* line 158
MeltFarmers ==
    /\ pc = "melt_farmers"
    /\ all_farmers_data_melted' =
           MeltVars(all_farm_data, "Farm Size", "Farm", "Full-Time Farmers",
                    [f \in 1..num_farms |-> FarmersCol(f)])
    /\ pc' = "done"
    /\ UNCHANGED <<exception, CMP, standard_LTH, MLT, LC, session_state,
                   area_one_farmer_can_manage, all_farm_data, i, YH, MCH, LTH,
                   farm_sizes, incomes, labor_times, full_time_farmers,
                   all_farm_data_melted>>

Next ==
    \/ ComputeArea
    \/ ReadSliders
    \/ CallSimulateIncome
    \/ ComputeFullTimeFarmers
    \/ StoreFarmData
    \/ MeltIncome
    \/ MeltFarmers

Spec == Init /\ [][Next]_vars

-----------------------------------------------------------------------------
(* simulate_income on its own, applied to arbitrary size sequences *)

SizeSeqs == UNION {[1..n -> 0..MaxSize] : n \in 0..MaxLen}

InitSim ==
    /\ pc = "call"
    /\ exception = "none"
    /\ CMP \in CMPValues
    /\ MLT \in MLTValues
    /\ LC \in LCValues
    /\ YH \in YHValues
    /\ MCH \in MCHValues
    /\ LTH \in LTHValues
    /\ farm_sizes \in SizeSeqs
    /\ incomes = <<>>
    /\ standard_LTH = 100
    /\ session_state = [f \in Farms |-> [YH |-> 0, MCH |-> 0, LTH |-> 0]]
    /\ area_one_farmer_can_manage = Unassigned
    /\ all_farm_data = EmptyFrame
    /\ i = 0
    /\ labor_times = <<>>
    /\ full_time_farmers = <<>>
    /\ all_farm_data_melted = EmptyFrame
    /\ all_farmers_data_melted = EmptyFrame

SimCall ==
    /\ pc = "call"
    /\ incomes' = simulate_income(farm_sizes, YH, MCH, LTH, CMP, MLT, LC)
    /\ pc' = "returned"
    /\ UNCHANGED <<exception, CMP, standard_LTH, MLT, LC, session_state,
                   area_one_farmer_can_manage, all_farm_data, i, YH, MCH, LTH,
                   farm_sizes, labor_times, full_time_farmers,
                   all_farm_data_melted, all_farmers_data_melted>>

NextSim == SimCall

SpecSim == InitSim /\ [][NextSim]_vars

-----------------------------------------------------------------------------
(* Properties of simulate_income (checked under SpecSim) *)

\* C1: for every size s of the input and every parameter set, the income
\* returned for s is YH*s*CMP - MCH*s - max(0, LTH*s - MLT)*LC: labour is
\* charged only for the days by which LTH*s exceeds MLT and nothing is charged
\* when LTH*s <= MLT; with YH=500, MCH=200, LTH=100, CMP=2.5, MLT=200, LC=10
\* the income is 1050 at s=1 and 2150 at s=3.  (Incomes are in 1/CMPDen.)
C1_IncomeFormula ==
    pc = "returned" =>
        \A k \in 1..Len(farm_sizes) :
            /\ k \in DOMAIN incomes
            /\ LET s == farm_sizes[k]
                   labor == IF LTH * s <= MLT THEN 0 ELSE ((LTH * s) - MLT) * LC
               IN  /\ incomes[k] = (YH * s * CMP) - (CMPDen * MCH * s) - (CMPDen * labor)
                   /\ (YH = 500 /\ MCH = 200 /\ LTH = 100 /\ CMP * 2 = 5 * CMPDen
                           /\ MLT = 200 /\ LC = 10)
                        => /\ s = 1 => incomes[k] = 1050 * CMPDen
                           /\ s = 3 => incomes[k] = 2150 * CMPDen

C1_Witness ==
    /\ pc = "returned"
    /\ YH = 500 /\ MCH = 200 /\ LTH = 100 /\ CMP * 2 = 5 * CMPDen
    /\ MLT = 200 /\ LC = 10
    /\ \E k, j \in DOMAIN incomes :
          /\ farm_sizes[k] = 1 /\ incomes[k] = 1050 * CMPDen
          /\ farm_sizes[j] = 3 /\ incomes[j] = 2150 * CMPDen

\* C4: simulate_income returns exactly one result per input farm size, in the
\* order of the input: the output has the input's length and its k-th element
\* is the income of the k-th input size, also when sizes repeat or are unsorted.
C4_OneResultPerSizeInOrder ==
    pc = "returned" =>
        /\ Len(incomes) = Len(farm_sizes)
        /\ \A k \in 1..Len(farm_sizes) :
              incomes[k] = Income(farm_sizes[k], YH, MCH, LTH, CMP, MLT, LC)

C4_Witness ==
    /\ pc = "returned"
    /\ farm_sizes = <<3, 1, 3>>
    /\ Len(incomes) = 3
    /\ incomes[1] = incomes[3]
    /\ incomes[1] # incomes[2]

-----------------------------------------------------------------------------
(* Properties of the script (checked under Spec) *)

IsNum(c) == c.kind = "num"

\* C2: for every profile and parameter set the full-time farmer count of any
\* farm size s > 0 is >= 1, also when the labour time per hectare is 0.
\* (Stated here for MLT > 0 only, where the count is a finite number.)
C2_AtLeastTheOwner ==
    (pc = "store" /\ MLT > 0) =>
        \A k \in DOMAIN full_time_farmers :
            farm_sizes[k] > 0 =>
                IsNum(full_time_farmers[k]) /\ full_time_farmers[k].val >= 1

NonFinite == {"inf", "-inf", "nan"}

C5_CountIsCeiling ==
    (pc = "store" /\ MLT > 0) =>
        /\ Len(full_time_farmers) = Len(farm_sizes)
        /\ \A k \in DOMAIN full_time_farmers :
              LET c == full_time_farmers[k]
                  s == farm_sizes[k]
              IN  /\ IsNum(c)
                  /\ c.val * MLT >= LTH * s
                  /\ (c.val - 1) * MLT < LTH * s
                  /\ (LTH = 100 /\ MLT = 200 /\ s = 1) => c.val = 1
                  /\ (LTH = 100 /\ MLT = 200 /\ s = 3) => c.val = 2

C5_Witness ==
    /\ pc = "store"
    /\ LTH = 100 /\ MLT = 200
    /\ farm_sizes[1] = 1 /\ full_time_farmers[1] = Num(1)
    /\ farm_sizes[3] = 3 /\ full_time_farmers[3] = Num(2)

\* C6: for a fixed profile and parameters with MLT > 0 the full-time farmer
\* count is non-decreasing in farm size.
C6_CountMonotone ==
    (pc = "store" /\ MLT > 0) =>
        \A a, b \in DOMAIN full_time_farmers :
            farm_sizes[a] < farm_sizes[b] =>
                /\ IsNum(full_time_farmers[a]) /\ IsNum(full_time_farmers[b])
                /\ full_time_farmers[a].val <= full_time_farmers[b].val

C6_Witness ==
    /\ pc = "store" /\ MLT > 0 /\ LTH > 0
    /\ \E a, b \in DOMAIN full_time_farmers :
          /\ farm_sizes[a] < farm_sizes[b]
          /\ full_time_farmers[a].val < full_time_farmers[b].val
    /\ \E a, b \in DOMAIN full_time_farmers :
          /\ farm_sizes[a] < farm_sizes[b]
          /\ full_time_farmers[a].val = full_time_farmers[b].val

\* C7: with MLT > 0, LTH > 0 and LC > 0 the income grows by
\* (YH*CMP - MCH) per hectare between sizes at or below s* = MLT / LTH and by
\* the strictly smaller (YH*CMP - MCH - LTH*LC) per hectare between sizes at or
\* above s*; so income may fall as the size grows past s* (C7_Witness).
C7_SlopeChange ==
    (pc = "farmers" /\ MLT > 0 /\ LTH > 0 /\ LC > 0) =>
        \A a, b \in DOMAIN incomes :
            LET sa == farm_sizes[a]
                sb == farm_sizes[b]
                below == (YH * CMP) - (MCH * CMPDen)
                above == (YH * CMP) - (MCH * CMPDen) - (LTH * LC * CMPDen)
            IN  sa < sb =>
                  /\ (LTH * sb <= MLT) => incomes[b] - incomes[a] = below * (sb - sa)
                  /\ (LTH * sa >= MLT) => incomes[b] - incomes[a] = above * (sb - sa)
                  /\ above < below

C7_Witness ==
    /\ pc = "farmers" /\ MLT = 200 /\ LTH = 100 /\ LC > 0
    /\ farm_sizes[1] = 1 /\ farm_sizes[2] = 2 /\ farm_sizes[3] = 3
    /\ incomes[2] > incomes[1]
    /\ incomes[3] < incomes[2]

\* C8: for MLT > 0 and every size s, the hired labour days max(0, LTH*s - MLT)
\* are strictly positive if and only if the full-time farmer count of s is at
\* least 2.
C8_HiredIffSecondWorker ==
    (pc = "store" /\ MLT > 0) =>
        \A k \in DOMAIN full_time_farmers :
            (HiredLaborHours(farm_sizes[k], LTH, MLT) > 0)
                <=> (IsNum(full_time_farmers[k]) /\ full_time_farmers[k].val >= 2)

C8_Witness ==
    /\ pc = "store" /\ MLT > 0
    /\ \E k \in DOMAIN full_time_farmers :
          /\ HiredLaborHours(farm_sizes[k], LTH, MLT) = 0
          /\ full_time_farmers[k] = Num(1)
    /\ \E k \in DOMAIN full_time_farmers :
          /\ HiredLaborHours(farm_sizes[k], LTH, MLT) > 0
          /\ full_time_farmers[k].val >= 2

\* The result of one profile computed on its own, from its own sliders.
OwnIncome(f, s) ==
    Income(s, session_state[f].YH, session_state[f].MCH, session_state[f].LTH,
           CMP, MLT, LC)

OwnFarmers(f, s) == NpCeilDivide(session_state[f].LTH * s, MLT)

OwnRow(s) ==
    [c \in {"Farm Size"} \cup {IncomeCol(f) : f \in Farms}
                         \cup {FarmersCol(f) : f \in Farms} |->
        IF c = "Farm Size" THEN s
        ELSE IF \E f \in Farms : c = IncomeCol(f)
             THEN OwnIncome(CHOOSE f \in Farms : c = IncomeCol(f), s)
             ELSE OwnFarmers(CHOOSE f \in Farms : c = FarmersCol(f), s)]

OwnFarmData(f) ==
    FarmData(f, arange(1, 11),
             [k \in 1..10 |-> OwnIncome(f, arange(1, 11)[k])],
             [k \in 1..10 |-> OwnFarmers(f, arange(1, 11)[k])])

RECURSIVE MergeInOrder(_, _)
\* The profiles' own results merged on 'Farm Size' in the order given.
MergeInOrder(order, n) ==
    IF n = 1
    THEN OwnFarmData(order[1])
    ELSE Merge(MergeInOrder(order, n - 1), OwnFarmData(order[n]), "Farm Size")

ProcessingOrders ==
    {o \in [1..num_farms -> Farms] : \A a, b \in 1..num_farms : o[a] = o[b] => a = b}

\* C9: after all profiles are processed the combined table has exactly one
\* row per size of the shared series, and in the row of size s the columns of
\* profile f hold the values computed from f's own parameters only; merging
\* the profiles' own results in any processing order gives the same rows.
C9_MergeIsIndependent ==
    pc \in {"melt_income", "melt_farmers", "done"} =>
        /\ Len(all_farm_data.rows) = Len(farm_sizes)
        /\ \A k \in DOMAIN farm_sizes :
              Cardinality({r \in DOMAIN all_farm_data.rows :
                              all_farm_data.rows[r]["Farm Size"] = farm_sizes[k]}) = 1
        /\ \A r \in DOMAIN all_farm_data.rows :
              all_farm_data.rows[r] = OwnRow(all_farm_data.rows[r]["Farm Size"])
        /\ \A o \in ProcessingOrders :
              MergeInOrder(o, num_farms).rows = all_farm_data.rows

C9_Witness ==
    /\ pc = "done"
    /\ session_state[1] # session_state[2]
    /\ Len(all_farm_data.rows) = 10
    /\ all_farm_data.rows[3][IncomeCol(1)] # all_farm_data.rows[3][IncomeCol(2)]
    /\ all_farm_data.rows[3][FarmersCol(1)] # all_farm_data.rows[3][FarmersCol(2)]

\* C10: the dataset of the income-vs-size view holds only income rows: every
\* row melted for the income chart is labelled with a 'Farm f Income' column
\* and none carries a full-time farmer count; symmetrically the dataset of the
\* full-time-farmer view holds only 'Farm f Full-Time Farmers' rows.
C10_ViewsHoldOwnColumnsOnly ==
    /\ pc \in {"melt_farmers", "done"} =>
          \A r \in DOMAIN all_farm_data_melted.rows :
              all_farm_data_melted.rows[r]["Farm"] \in {IncomeCol(f) : f \in Farms}
    /\ pc = "done" =>
          \A r \in DOMAIN all_farmers_data_melted.rows :
              all_farmers_data_melted.rows[r]["Farm"] \in {FarmersCol(f) : f \in Farms}

====
